---- MODULE Spec2Model ----
(***************************************************************************)
(* Fixed-point numbers with statically derived dimensions (crate `fp`).    *)
(*                                                                         *)
(* A fixed-point type is a record [w, signed, bits, shift]: the storage    *)
(* integer's width and signedness (the `Raw` type) and the const generic   *)
(* parameters BITS and SHIFT.  A value is the raw integer of its storage   *)
(* type.  Every library operation is one action of a caller that           *)
(* instantiates the operation at some types (the const assertions are the  *)
(* action's guard: a rejected instantiation does not compile), calls it on *)
(* some operands and observes the outcome.                                 *)
(***************************************************************************)
EXTENDS Integers, FiniteSets, Sequences, TLC

VARIABLES
    pc,     \* "idle" before a call, "done" after it
    op,     \* the operation that was called
    A,      \* type of self (or the target type of a constructor)
    B,      \* type of the other operand
    C,      \* type of the output
    a,      \* raw value of self
    b,      \* raw value of the other operand
    out,    \* outcome of the call
    fmt,    \* float format of a float conversion
    fl      \* the float a conversion produced or consumes

vars == <<pc, op, A, B, C, a, b, out, fmt, fl>>

----------------------------------------------------------------------------
(* Bounds of the model *)

\* SHIFT parameters are drawn from -MaxShift .. MaxShift.
MaxShift == 1

\* Where operands are sampled, they are the values within Near of the type's
\* MIN, of its MAX and of zero.
Near == 1

----------------------------------------------------------------------------
(* Outcomes of a call *)

Ok(raw) == [kind |-> "Ok", raw |-> raw, msg |-> ""]
Err(e) == [kind |-> e, raw |-> 0, msg |-> ""]
Panic(msg) == [kind |-> "panic", raw |-> 0, msg |-> msg]
UB(raw) == [kind |-> "UB", raw |-> raw, msg |-> ""]
NoOut == [kind |-> "none", raw |-> 0, msg |-> ""]

----------------------------------------------------------------------------
(* Storage integers: src/int.rs *)

i8_BITS == 8
i16_BITS == 16
i32_BITS == 32
i64_BITS == 64

\* <$T>::MIN, <$T>::MAX, ZERO of a native integer of width w (the signed
\* extremes are summed from halves, so that no intermediate value leaves
\* the range of the type itself)
Int_MIN(w, signed) == IF signed THEN -(2^(w - 2)) - 2^(w - 2) ELSE 0
Int_MAX(w, signed) ==
    IF signed THEN (2^(w - 2) - 1) + 2^(w - 2) ELSE 2^w - 1
Int_ZERO == 0

\* All values of a native integer type
IntValues(w, signed) == Int_MIN(w, signed) .. Int_MAX(w, signed)

Abs(x) == IF x < 0 THEN -x ELSE x

\* Two's complement reduction of x into the integer type (an `as` cast,
\* or what a wrapping operation leaves)
WrapTo(w, signed, x) ==
    IF Int_MIN(w, signed) <= x /\ x <= Int_MAX(w, signed) THEN x
    ELSE LET m == x % (2^w)
         IN  IF signed /\ m >= 2^(w - 1) THEN m - 2^w ELSE m

\* `>>` on a native integer: arithmetic for signed, logical for unsigned;
\* both are the floor of x / 2^n (n < w), taken one bit and then the rest
Shr(x, n) == IF n = 0 THEN x ELSE (x \div 2) \div (2^(n - 1))

\* What a call whose safety precondition is violated can produce: the build
\* may wrap, may yield any other value of the type (here its extremes), or
\* may abort on the debug precondition check.
Undefined(w, signed, exact) ==
    { UB(r) :
        r \in {WrapTo(w, signed, exact), Int_MIN(w, signed), Int_MAX(w, signed)} }
    \cup { Panic("unsafe precondition(s) violated") }

\* Int::as_signed: `self as $Signed`
as_signed(w, x) == WrapTo(w, TRUE, x)

\* Int::unchecked_add, Int::unchecked_sub: the outcomes of the call
unchecked_add(w, signed, x, y) ==
    IF x + y \in IntValues(w, signed)
    THEN { Ok(x + y) }
    ELSE Undefined(w, signed, x + y)
unchecked_sub(w, signed, x, y) ==
    IF x - y \in IntValues(w, signed)
    THEN { Ok(x - y) }
    ELSE Undefined(w, signed, x - y)

\* Native `*` on a storage integer: on overflow a build with overflow
\* checks panics and a build without them wraps.
native_mul(w, signed, x, y) ==
    IF x * y \in IntValues(w, signed)
    THEN { Ok(x * y) }
    ELSE { Panic("attempt to multiply with overflow"),
           Ok(WrapTo(w, signed, x * y)) }

\* Native unchecked_mul on a storage integer
unchecked_mul(w, signed, x, y) ==
    IF x * y \in IntValues(w, signed)
    THEN { Ok(x * y) }
    ELSE Undefined(w, signed, x * y)

\* Native `/` on a storage integer: truncates toward zero; panics on a zero
\* divisor and on the one overflowing quotient (MIN / -1), in every build.
TruncDiv(x, y) ==
    IF (x < 0) = (y < 0) THEN Abs(x) \div Abs(y) ELSE -(Abs(x) \div Abs(y))
native_div(w, signed, x, y) ==
    IF y = 0 THEN { Panic("attempt to divide by zero") }
    ELSE IF TruncDiv(x, y) \notin IntValues(w, signed)
    THEN { Panic("attempt to divide with overflow") }
    ELSE { Ok(TruncDiv(x, y)) }

----------------------------------------------------------------------------
(* IEEE-754 floats, as the float primitives of src/num_impl.rs and         *)
(* src/int.rs use them.  A finite float is neg, m, e with value            *)
(* (-1)^neg * m * 2^e, m odd or zero; "inf" and "nan" carry no magnitude.  *)

\* f32 and f64: total bits, MANTISSA_DIGITS, MIN_EXP, MAX_EXP
F32 == [name |-> "f32", bits |-> 32, mant |-> 24, min_exp |-> -125, max_exp |-> 128]
F64 == [name |-> "f64", bits |-> 64, mant |-> 53, min_exp |-> -1021, max_exp |-> 1024]
NoFormat == [name |-> "none", bits |-> 0, mant |-> 0, min_exp |-> 0, max_exp |-> 0]

Fin(neg, m, e) == [cls |-> "fin", neg |-> neg, m |-> m, e |-> e]
Inf(neg) == [cls |-> "inf", neg |-> neg, m |-> 0, e |-> 0]
NaN == [cls |-> "nan", neg |-> FALSE, m |-> 0, e |-> 0]
Zero(neg) == Fin(neg, 0, 0)
NoFloat == [cls |-> "none", neg |-> FALSE, m |-> 0, e |-> 0]

Max(x, y) == IF x >= y THEN x ELSE y

RECURSIVE BitLen(_)
BitLen(m) == IF m = 0 THEN 0 ELSE 1 + BitLen(m \div 2)

\* The finite float of value m * 2^e with its significand made odd
RECURSIVE Canon(_, _, _)
Canon(neg, m, e) ==
    IF m = 0 THEN Zero(neg)
    ELSE IF m % 2 = 0 THEN Canon(neg, m \div 2, e + 1)
    ELSE Fin(neg, m, e)

\* The exponent of the least significant bit of the smallest subnormal
EMin(f) == f.min_exp - f.mant

\* The result of a float operation whose exact value is m * 2^e: rounded to
\* the nearest representable value, ties to even; overflow gives infinity.
RoundToFormat(f, neg, m, e) ==
    LET L == BitLen(m)
        q == Max(e, Max(e + L - f.mant, EMin(f)))
        d == q - e
    IN  IF m = 0 THEN Zero(neg)
        ELSE IF d = 0
        THEN IF e + L > f.max_exp THEN Inf(neg) ELSE Canon(neg, m, e)
        ELSE IF d > L + 1 THEN Zero(neg)
        ELSE LET p == 2^d
                 lo == m \div p
                 r == m % p
                 up == (2 * r > p) \/ (2 * r = p /\ lo % 2 = 1)
                 m2 == lo + (IF up THEN 1 ELSE 0)
             IN  IF m2 = 0 THEN Zero(neg)
                 ELSE IF q + BitLen(m2) > f.max_exp THEN Inf(neg)
                 ELSE Canon(neg, m2, q)

\* `x as f32`, `x as f64` for an integer x (an even x as (x / 2) * 2^1,
\* whose magnitude is that of a value of the integer type)
int_to_float(f, x) ==
    IF x % 2 = 0 THEN RoundToFormat(f, x < 0, Abs(x \div 2), 1)
    ELSE RoundToFormat(f, x < 0, Abs(x), 0)

\* x * y
fmul(f, x, y) ==
    IF x.cls = "nan" \/ y.cls = "nan" THEN NaN
    ELSE IF x.cls = "inf" \/ y.cls = "inf"
    THEN IF (x.cls = "fin" /\ x.m = 0) \/ (y.cls = "fin" /\ y.m = 0)
         THEN NaN ELSE Inf(x.neg # y.neg)
    ELSE RoundToFormat(f, x.neg # y.neg, x.m * y.m, x.e + y.e)

\* x / y for a divisor that is zero, infinite or a power of two (every
\* value f32_lsb / f64_lsb returns is one of these)
fdiv(f, x, y) ==
    IF x.cls = "nan" \/ y.cls = "nan" THEN NaN
    ELSE IF y.cls = "inf"
    THEN IF x.cls = "inf" THEN NaN ELSE Zero(x.neg # y.neg)
    ELSE IF x.cls = "inf" THEN Inf(x.neg # y.neg)
    ELSE IF y.m = 0
    THEN IF x.m = 0 THEN NaN ELSE Inf(x.neg # y.neg)
    ELSE RoundToFormat(f, x.neg # y.neg, x.m, x.e - y.e)

\* x < y and x > y on floats (false when either is NaN; -0.0 = +0.0)
MagLess(x, y) ==
    \* |x| < |y| for finite nonzero x, y: by the position of the top bit,
    \* then by the aligned significands
    LET tx == x.e + BitLen(x.m)
        ty == y.e + BitLen(y.m)
    IN  IF tx # ty THEN tx < ty
        ELSE IF x.e >= y.e THEN x.m * 2^(x.e - y.e) < y.m
        ELSE x.m < y.m * 2^(y.e - x.e)
flt(x, y) ==
    IF x.cls = "nan" \/ y.cls = "nan" THEN FALSE
    ELSE IF x.cls = "inf" THEN x.neg /\ ~(y.cls = "inf" /\ y.neg)
    ELSE IF y.cls = "inf" THEN ~y.neg
    ELSE IF x.m = 0 THEN y.m # 0 /\ ~y.neg
    ELSE IF y.m = 0 THEN x.neg
    ELSE IF x.neg # y.neg THEN x.neg
    ELSE IF x.neg THEN MagLess(y, x) ELSE MagLess(x, y)
fgt(x, y) == flt(y, x)

\* f32::from_bits / f64::from_bits of the pattern (field << (mant - 1)) for
\* field > 0: the shift drops what leaves the word, the low bits of field
\* are the biased exponent, the next bit is the sign, the fraction is zero
\* (as from_bits_shifted_field, with the exponent bias off by one)
from_bits_shifted_field_Bias(f, field) ==
    LET ebits == f.bits - f.mant
        biased == field % (2^ebits)
        neg == (field \div (2^ebits)) % 2 = 1
    IN  IF biased = 0 THEN Zero(neg)
        ELSE IF biased = 2^ebits - 1 THEN Inf(neg)
        ELSE Fin(neg, 1, biased - f.max_exp)
from_bits_shifted_field(f, field) ==
    LET ebits == f.bits - f.mant
        biased == field % (2^ebits)
        neg == (field \div (2^ebits)) % 2 = 1
    IN  IF biased = 0 THEN Zero(neg)
        ELSE IF biased = 2^ebits - 1 THEN Inf(neg)
        ELSE Fin(neg, 1, biased - (f.max_exp - 1))

\* f32::from_bits / f64::from_bits of the pattern with the single bit k set
\* (as from_bits_single, with fraction bit k read as the bit above it)
from_bits_single_BitAbove(f, k) ==
    IF k = f.bits - 1 THEN Zero(TRUE)
    ELSE IF k < f.mant - 1 THEN Fin(FALSE, 1, k + 1 + EMin(f))
    ELSE Fin(FALSE, 1, 2^(k - (f.mant - 1)) - (f.max_exp - 1))
from_bits_single(f, k) ==
    IF k = f.bits - 1 THEN Zero(TRUE)
    ELSE IF k < f.mant - 1 THEN Fin(FALSE, 1, k + EMin(f))
    ELSE Fin(FALSE, 1, 2^(k - (f.mant - 1)) - (f.max_exp - 1))

\* f32_lsb::<SHIFT>(), f64_lsb::<SHIFT>(): the outcomes of the call.  A shift
\* amount outside the word panics in a build with overflow checks and is
\* masked to the word size in a build without them.
\* (as f_lsb, with subnormal results flushed to zero as powi may)
f_lsb_FlushSubnormal(f, shift) ==
    LET exp == 2 - f.min_exp - shift
    IN  IF exp > 0 THEN { [kind |-> "Ok", f |-> from_bits_shifted_field(f, exp)] }
        ELSE { [kind |-> "Ok", f |-> Zero(FALSE)] }
f_lsb(f, shift) ==
    LET exp == 2 - f.min_exp - shift
        sh == f.mant + exp - 2
    IN  IF exp > 0
        THEN { [kind |-> "Ok", f |-> from_bits_shifted_field(f, exp)] }
        ELSE IF 0 <= sh
        THEN { [kind |-> "Ok", f |-> from_bits_single(f, sh)] }
        ELSE { [kind |-> "panic", f |-> NoFloat],
               [kind |-> "Ok", f |-> from_bits_single(f, sh % f.bits)] }

\* f.to_int_unchecked() into a storage integer: truncation toward zero;
\* undefined unless f is finite and the truncated value fits
Trunc(x) ==
    IF x.e >= 0 THEN x.m * 2^(x.e)
    ELSE IF -x.e > BitLen(x.m) THEN 0
    ELSE x.m \div 2^(-x.e)
to_int_unchecked(w, signed, x) ==
    IF x.cls # "fin" THEN Undefined(w, signed, 0)
    ELSE IF x.e + BitLen(x.m) > w THEN Undefined(w, signed, 0)
    ELSE IF signed /\ x.e + BitLen(x.m) = w
    THEN \* 2^(w-1) <= |x| < 2^w: only -2^(w-1) fits
         IF x.neg /\ x.m = 1 THEN { Ok(Int_MIN(w, signed)) }
         ELSE Undefined(w, signed, 0)
    ELSE LET v == IF x.neg THEN -Trunc(x) ELSE Trunc(x)
         IN  IF Int_MIN(w, signed) <= v /\ v <= Int_MAX(w, signed)
             THEN { Ok(v) }
             ELSE Undefined(w, signed, v)

----------------------------------------------------------------------------
(* Fixed-point types: src/num_impl.rs *)

Type(w, signed, bits, shift) ==
    [w |-> w, signed |-> signed, bits |-> bits, shift |-> shift]

NoType == Type(0, FALSE, 0, 0)

\* const BITS: the assertion "too many bits for $T"
ValidBITS(t) == t.bits <= t.w

\* const MIN
\* (as MIN, without the BITS = 0 case)
MIN_NoZeroCase(t) == Shr(Int_MIN(t.w, t.signed), t.w - t.bits)
MIN(t) ==
    IF t.bits = 0 THEN 0
    ELSE Shr(Int_MIN(t.w, t.signed), t.w - t.bits)

\* const MAX
MAX(t) ==
    IF t.bits = 0 THEN 0
    ELSE Shr(Int_MAX(t.w, t.signed), t.w - t.bits)

\* const ZERO
ZERO(t) == Int_ZERO

\* The values a safely constructed instance of t can hold
Values(t) == MIN(t) .. MAX(t)

\* The values of t next to MIN, MAX and zero
EdgeValues(t) ==
    { v \in { MIN(t) + k : k \in 0 .. Near } \cup { MAX(t) - k : k \in 0 .. Near }
             \cup { k : k \in (-Near) .. Near } :
        MIN(t) <= v /\ v <= MAX(t) }

----------------------------------------------------------------------------
(* trait Num: src/lib.rs *)

\* Num::new
\* (as new, without the comparison with MAX)
new_NoUpperCheck(t, val) ==
    IF val < MIN(t) THEN Err("TooSmall") ELSE Ok(val)
new(t, val) ==
    IF val < MIN(t) THEN Err("TooSmall")
    ELSE IF val > MAX(t) THEN Err("TooLarge")
    ELSE Ok(val)

\* Num::set_bits: its const assertions, and its body
set_bits_accepts(s, t) ==
    /\ s.w = t.w /\ s.signed = t.signed       \* T: Num<Raw = Self::Raw>
    /\ s.shift = t.shift
    /\ ValidBITS(t)
set_bits(t, val) == new(t, val)

\* Num::add_bits: its bounds and its (empty) const block, and its body
add_bits_accepts(s, t) ==
    /\ s.w = t.w /\ s.signed = t.signed       \* T: Num<Raw = Self::Raw>
    /\ ValidBITS(t)
add_bits(t, val) == Ok(val)                   \* T::new_unchecked(self.raw())

\* Num::logical_shl::<N, T> and Num::logical_shr::<N, T>: their bounds and
\* const assertions, and their bodies
\* (as logical_shl_accepts, without the assertion on BITS)
logical_shl_accepts_NoBitsCheck(s, t, n) ==
    /\ s.w = t.w /\ s.signed = t.signed
    /\ ValidBITS(t)
    /\ t.shift = s.shift - n
logical_shl_accepts(s, t, n) ==
    /\ s.w = t.w /\ s.signed = t.signed       \* T: Num<Raw = Self::Raw>
    /\ ValidBITS(t)
    /\ t.bits >= s.bits
    /\ t.shift = s.shift - n
logical_shl(t, val) == Ok(val)                \* T::new_unchecked(self.raw())
logical_shr_accepts(s, t, n) ==
    /\ s.w = t.w /\ s.signed = t.signed       \* T: Num<Raw = Self::Raw>
    /\ ValidBITS(t)
    /\ t.bits >= s.bits
    /\ t.shift = s.shift + n
logical_shr(t, val) == Ok(val)                \* T::new_unchecked(self.raw())

\* Num::raw_shl::<N, T> and Num::raw_shr::<N, T>: their bounds and const
\* assertions (the BITS are u32: a negative difference does not compile),
\* and their bodies.  A shift by the storage width or more panics in a build
\* with overflow checks and is masked to the width in a build without them.
raw_shl_accepts(s, t, n) ==
    /\ s.w = t.w /\ s.signed = t.signed       \* T: Num<Raw = Self::Raw>
    /\ ValidBITS(t)
    /\ t.bits >= s.bits /\ t.bits - s.bits >= n
    /\ t.shift - s.shift = n
raw_shl(t, val, n) ==
    IF n >= t.w
    THEN { Panic("attempt to shift left with overflow"),
           Ok(WrapTo(t.w, t.signed, val * 2^(n % t.w))) }
    ELSE { Ok(WrapTo(t.w, t.signed, val * 2^n)) }
raw_shr_accepts(s, t, n) ==
    /\ s.w = t.w /\ s.signed = t.signed       \* T: Num<Raw = Self::Raw>
    /\ ValidBITS(t)
    /\ s.bits >= t.bits /\ s.bits - t.bits <= n
    /\ s.shift - t.shift = n
raw_shr(t, val, n) ==
    IF n >= t.w
    THEN { Panic("attempt to shift right with overflow"),
           Ok(Shr(val, n % t.w)) }
    ELSE { Ok(Shr(val, n)) }

\* Num::saturate
\* (as saturate, leaving a too small value as it is)
saturate_NoClampLow(t, val) ==
    LET r == set_bits(t, val)
    IN  IF r.kind = "TooSmall" THEN Ok(val)
        ELSE IF r.kind = "TooLarge" THEN Ok(MAX(t))
        ELSE r
saturate(t, val) ==
    LET r == set_bits(t, val)
    IN  IF r.kind = "TooSmall" THEN Ok(MIN(t))
        ELSE IF r.kind = "TooLarge" THEN Ok(MAX(t))
        ELSE r

\* Num::from_fp::<F>(val) into Self: its const assertions, and its body
\* (TryFrom on the raw value, unwrapped without a check)
\* (as from_fp_accepts, without the extra bit for unsigned to signed)
from_fp_accepts_NoSignBit(f, self) ==
    /\ self.shift = f.shift
    /\ self.bits >= f.bits
    /\ (~self.signed) => ~f.signed
    /\ ValidBITS(self)
from_fp_accepts(f, self) ==
    /\ self.shift = f.shift
    /\ self.bits >= f.bits
    /\ IF ~self.signed THEN ~f.signed
       ELSE IF ~f.signed THEN self.bits > f.bits
       ELSE TRUE
    /\ ValidBITS(self)
from_fp(f, self, val) ==
    IF val \in IntValues(self.w, self.signed)
    THEN { Ok(val) }
    ELSE Undefined(self.w, self.signed, val)

\* Num::into_fp::<F>(self)
into_fp(self, f, val) == from_fp(self, f, val)

\* Num::add: its const assertions, and its body
\* (as add_accepts, with Output::BITS >= Other::BITS)
add_accepts_NoOtherHeadroom(s, o, t) ==
    /\ s.w = o.w /\ s.signed = o.signed     \* Other: Num<Raw = Self::Raw>
    /\ s.w = t.w /\ s.signed = t.signed     \* Output: Num<Raw = Self::Raw>
    /\ t.shift = s.shift
    /\ t.shift = o.shift
    /\ t.bits > s.bits
    /\ t.bits >= o.bits
    /\ ValidBITS(t)
add_accepts(s, o, t) ==
    /\ s.w = o.w /\ s.signed = o.signed     \* Other: Num<Raw = Self::Raw>
    /\ s.w = t.w /\ s.signed = t.signed     \* Output: Num<Raw = Self::Raw>
    /\ t.shift = s.shift
    /\ t.shift = o.shift
    /\ t.bits > s.bits
    /\ t.bits > o.bits
    /\ ValidBITS(t)
add(t, x, y) == unchecked_add(t.w, t.signed, x, y)

\* Num::sub: its const assertions, and its body
sub_accepts(s, o, t) ==
    /\ s.w = o.w /\ s.signed = o.signed     \* Other: Num<Raw = Self::Raw>
    /\ t.w = s.w /\ t.signed                \* Output: Num<Raw = Raw::Signed>
    /\ t.shift = s.shift
    /\ t.shift = o.shift
    /\ ValidBITS(t)
sub(t, x, y) ==
    unchecked_sub(t.w, TRUE, as_signed(t.w, x), as_signed(t.w, y))

----------------------------------------------------------------------------
(* The float bridge: src/num_impl.rs, src/lib.rs *)

\* Num::into_f32 / into_f64 for $Name<BITS, SHIFT>: the outcomes of the call,
\* each a panic or a float
IntoOk(x) == [kind |-> "Ok", raw |-> 0, msg |-> "", f |-> x]
IntoPanic(msg) == [kind |-> "panic", raw |-> 0, msg |-> msg, f |-> NoFloat]
could_be_truncated(f) ==
    IF f.name = "f32" THEN "number could be truncated in f32"
    ELSE "number could be truncated in f64"
could_underflow(f) ==
    IF f.name = "f32" THEN "number could underflow f32"
    ELSE "number could underflow f64"
could_overflow(f) ==
    IF f.name = "f32" THEN "number could overflow f32"
    ELSE "number could overflow f64"
\* (as into_float, with the overflow assertion first)
into_float_OverflowFirst(f, t, val) ==
    IF t.bits - t.shift > f.max_exp THEN { IntoPanic(could_overflow(f)) }
    ELSE IF t.bits > f.mant THEN { IntoPanic(could_be_truncated(f)) }
    ELSE IF t.shift > f.mant - f.min_exp THEN { IntoPanic(could_underflow(f)) }
    ELSE IF t.bits = 0 THEN { IntoOk(Zero(FALSE)) }
    ELSE { IF l.kind = "panic" THEN IntoPanic("attempt to shift left with overflow")
           ELSE IntoOk(fmul(f, int_to_float(f, val), l.f)) :
           l \in f_lsb(f, t.shift) }
into_float(f, t, val) ==
    IF t.bits > f.mant THEN { IntoPanic(could_be_truncated(f)) }
    ELSE IF t.shift > f.mant - f.min_exp THEN { IntoPanic(could_underflow(f)) }
    ELSE IF t.bits - t.shift > f.max_exp THEN { IntoPanic(could_overflow(f)) }
    ELSE IF t.bits = 0 THEN { IntoOk(Zero(FALSE)) }
    ELSE { IF l.kind = "panic" THEN IntoPanic("attempt to shift left with overflow")
           ELSE IntoOk(fmul(f, int_to_float(f, val), l.f)) :
           l \in f_lsb(f, t.shift) }

\* Num::from_f32_unchecked / from_f64_unchecked for $Name<BITS, SHIFT>
from_float_unchecked(f, t, x) ==
    UNION { IF l.kind = "panic" THEN { Panic("attempt to shift left with overflow") }
            ELSE to_int_unchecked(t.w, t.signed, fdiv(f, x, l.f)) :
            l \in f_lsb(f, t.shift) }

\* Num::from_f32 / from_f64 (the trait's default body), given the outcomes
\* of MIN.into_f32(), MAX.into_f32() and from_f32_unchecked(val)
Num_from_float(x, los, his, unchecked) ==
    IF x.cls # "fin"
    THEN { Panic("can't convert non-finite float into fixed point") }
    ELSE UNION { UNION {
            IF lo.kind = "panic" THEN { Panic(lo.msg) }
            ELSE IF flt(x, lo.f) THEN { Err("TooSmall") }
            ELSE IF hi.kind = "panic" THEN { Panic(hi.msg) }
            ELSE IF fgt(x, hi.f) THEN { Err("TooLarge") }
            ELSE unchecked :
            hi \in his } : lo \in los }

\* from_f32 / from_f64 of $Name<BITS, SHIFT>
from_float(f, t, x) ==
    Num_from_float(x, into_float(f, t, MIN(t)), into_float(f, t, MAX(t)),
                   from_float_unchecked(f, t, x))

\* The float bridge of a plain integer (impl<T: Int> Num for T):
\* `self as f32`, to_int_unchecked, and the trait's from_f32 / from_f64
int_into_float(f, t, val) == { IntoOk(int_to_float(f, val)) }
int_from_float_unchecked(f, t, x) == to_int_unchecked(t.w, t.signed, x)
int_from_float(f, t, x) ==
    Num_from_float(x, int_into_float(f, t, Int_MIN(t.w, t.signed)),
                   int_into_float(f, t, Int_MAX(t.w, t.signed)),
                   int_from_float_unchecked(f, t, x))

\* num_signed_unsigned_impl: $Uname::into_signed, $Iname::into_unsigned and
\* into_unsigned_unchecked.  The output types are written B + 1 and B - 1 in
\* u32: BITS beyond the storage and B - 1 for B = 0 do not compile.
into_signed_Output(s) == Type(s.w, TRUE, s.bits + 1, s.shift)
into_signed_accepts(s) == ~s.signed /\ ValidBITS(into_signed_Output(s))
into_signed(s, val) == Ok(WrapTo(s.w, TRUE, val))

into_unsigned_Output(s) == Type(s.w, FALSE, s.bits - 1, s.shift)
into_unsigned_accepts(s) == s.signed /\ s.bits >= 1
into_unsigned_unchecked(s, val) == Ok(WrapTo(s.w, FALSE, val))
None == [kind |-> "None", raw |-> 0, msg |-> ""]
\* (as into_unsigned, without the test of the sign)
into_unsigned_NoSignTest(s, val) == into_unsigned_unchecked(s, val)
into_unsigned(s, val) ==
    IF val >= 0 THEN into_unsigned_unchecked(s, val) ELSE None

\* The float bridge of a plain integer as num_impl! writes it (impl Num
\* for $T): into_f32 and into_f64 both assert BITS <= f32::MANTISSA_DIGITS
prim_into_float(f, t, val) ==
    IF t.bits > F32.mant THEN { IntoPanic(could_be_truncated(f)) }
    ELSE { IntoOk(int_to_float(f, val)) }

----------------------------------------------------------------------------
(* Multiply and divide: src/mul_div.rs *)

\* fp_impl: $Name * $Name and $Name / $Name over one storage type
fp_Mul_Output(s, o) ==
    Type(s.w, s.signed, s.bits + o.bits, s.shift + o.shift)
fp_mul(s, o, x, y) == unchecked_mul(s.w, s.signed, x, y)

\* (as fp_Div_Output, without the extra bit of the signed case)
fp_Div_Output_NoExtraBit(s, o) ==
    Type(s.w, s.signed, s.bits, s.shift - o.shift)
fp_Div_Output(s, o) ==
    Type(s.w, s.signed, s.bits + (IF s.signed THEN 1 ELSE 0), s.shift - o.shift)
fp_div(s, o, x, y) == native_div(s.w, s.signed, x, y)

\* fp_signed_unsigned_impl: $Iname * $Uname and $Uname * $Iname
\* (as iu_Mul_Output, with one bit less)
iu_Mul_Output_OneBitLess(s, o) ==
    Type(s.w, TRUE, s.bits + o.bits - 1, s.shift + o.shift)
iu_Mul_Output(s, o) ==
    Type(s.w, TRUE, s.bits + o.bits, s.shift + o.shift)
iu_mul(s, o, x, y) == native_mul(s.w, TRUE, x, WrapTo(s.w, TRUE, y))

ui_Mul_Output(s, o) ==
    Type(s.w, TRUE, s.bits + o.bits, s.shift + o.shift)
ui_mul(s, o, x, y) == native_mul(s.w, TRUE, WrapTo(s.w, TRUE, x), y)

\* fp_signed_unsigned_impl: $Iname / $Uname and $Uname / $Iname
iu_Div_Output(s, o) == Type(s.w, TRUE, s.bits, s.shift - o.shift)
iu_div(s, o, x, y) == native_div(s.w, TRUE, x, WrapTo(s.w, TRUE, y))

ui_Div_Output(s, o) == Type(s.w, TRUE, s.bits + 1, s.shift - o.shift)
ui_div(s, o, x, y) == native_div(s.w, TRUE, WrapTo(s.w, TRUE, x), y)

----------------------------------------------------------------------------
(* The caller *)

Shifts == (-MaxShift) .. MaxShift
Widths == {i8_BITS, i16_BITS}

\* Every instantiable fixed-point type over a storage of width w
Types(w) ==
    { Type(w, s, n, sh) : s \in BOOLEAN, n \in 0 .. w, sh \in Shifts }

Init ==
    /\ pc = "idle" /\ op = "none"
    /\ A = NoType /\ B = NoType /\ C = NoType
    /\ a = 0 /\ b = 0 /\ out = NoOut
    /\ fmt = NoFormat /\ fl = NoFloat

Call(o, ta, tb, tc, x, y, r) ==
    /\ pc' = "done" /\ op' = o
    /\ A' = ta /\ B' = tb /\ C' = tc
    /\ a' = x /\ b' = y /\ out' = r
    /\ fmt' = NoFormat /\ fl' = NoFloat

Return ==
    /\ pc = "done"
    /\ pc' = "idle" /\ op' = "none"
    /\ A' = NoType /\ B' = NoType /\ C' = NoType
    /\ a' = 0 /\ b' = 0 /\ out' = NoOut
    /\ fmt' = NoFormat /\ fl' = NoFloat

\* Evaluate the constants of a type: out.raw is ZERO, a is MIN, b is MAX
Consts ==
    /\ pc = "idle"
    /\ \E w \in Widths : \E t \in Types(w) :
        Call("consts", t, NoType, NoType, MIN(t), MAX(t), Ok(ZERO(t)))

\* T::new(v) for any raw storage value v
New ==
    /\ pc = "idle"
    /\ \E t \in Types(i8_BITS) : \E v \in IntValues(t.w, t.signed) :
        Call("new", t, NoType, NoType, v, 0, new(t, v))

\* x.set_bits::<T>() for x of type s, any raw value of s
SetBits ==
    /\ pc = "idle"
    /\ \E s \in Types(i8_BITS) : \E t \in Types(i8_BITS) :
        /\ set_bits_accepts(s, t)
        /\ \E v \in Values(s) :
              Call("set_bits", s, NoType, t, v, 0, set_bits(t, v))

\* x.saturate::<T>()
Saturate ==
    /\ pc = "idle"
    /\ \E s \in Types(i8_BITS) : \E t \in Types(i8_BITS) :
        /\ set_bits_accepts(s, t)
        /\ \E v \in Values(s) :
              Call("saturate", s, NoType, t, v, 0, saturate(t, v))

NextCheck == Consts \/ New \/ SetBits \/ Saturate \/ Return
SpecCheck == Init /\ [][NextCheck]_vars

\* x.add::<Other, Output>(y)
Add ==
    /\ pc = "idle"
    /\ \E s \in Types(i8_BITS) : \E o \in Types(i8_BITS) : \E t \in Types(i8_BITS) :
        /\ add_accepts(s, o, t)
        /\ \E x \in Values(s) : \E y \in Values(o) : \E r \in add(t, x, y) :
              Call("add", s, o, t, x, y, r)

NextAdd == Add \/ Return
SpecAdd == Init /\ [][NextAdd]_vars

\* x.sub::<Other, Output>(y)
Sub ==
    /\ pc = "idle"
    /\ \E s \in Types(i8_BITS) : \E o \in Types(i8_BITS) : \E t \in Types(i8_BITS) :
        /\ sub_accepts(s, o, t)
        /\ \E x \in EdgeValues(s) : \E y \in EdgeValues(o) : \E r \in sub(t, x, y) :
              Call("sub", s, o, t, x, y, r)

NextSub == Sub \/ Return
SpecSub == Init /\ [][NextSub]_vars

\* x * y, both operands over the same storage type
Mul ==
    /\ pc = "idle"
    /\ \E s \in Types(i8_BITS) : \E o \in Types(i8_BITS) :
        /\ s.signed = o.signed
        /\ ValidBITS(fp_Mul_Output(s, o))
        /\ \E x \in Values(s) : \E y \in Values(o) : \E r \in fp_mul(s, o, x, y) :
              Call("mul", s, o, fp_Mul_Output(s, o), x, y, r)

\* x * y, x signed and y unsigned
MulSignedUnsigned ==
    /\ pc = "idle"
    /\ \E s \in Types(i8_BITS) : \E o \in Types(i8_BITS) :
        /\ s.signed /\ ~o.signed
        /\ ValidBITS(iu_Mul_Output(s, o))
        /\ \E x \in Values(s) : \E y \in Values(o) : \E r \in iu_mul(s, o, x, y) :
              Call("mul", s, o, iu_Mul_Output(s, o), x, y, r)

\* x * y, x unsigned and y signed
MulUnsignedSigned ==
    /\ pc = "idle"
    /\ \E s \in Types(i8_BITS) : \E o \in Types(i8_BITS) :
        /\ ~s.signed /\ o.signed
        /\ ValidBITS(ui_Mul_Output(s, o))
        /\ \E x \in Values(s) : \E y \in Values(o) : \E r \in ui_mul(s, o, x, y) :
              Call("mul", s, o, ui_Mul_Output(s, o), x, y, r)

NextMul == Mul \/ MulSignedUnsigned \/ MulUnsignedSigned \/ Return
SpecMul == Init /\ [][NextMul]_vars

\* x / y, both operands over the same storage type
Div ==
    /\ pc = "idle"
    /\ \E s \in Types(i8_BITS) : \E o \in Types(i8_BITS) :
        /\ s.signed = o.signed
        /\ ValidBITS(fp_Div_Output(s, o))
        /\ \E x \in EdgeValues(s) : \E y \in EdgeValues(o) :
              \E r \in fp_div(s, o, x, y) :
                 Call("div", s, o, fp_Div_Output(s, o), x, y, r)

\* x / y, x signed and y unsigned
DivSignedUnsigned ==
    /\ pc = "idle"
    /\ \E s \in Types(i8_BITS) : \E o \in Types(i8_BITS) :
        /\ s.signed /\ ~o.signed
        /\ ValidBITS(iu_Div_Output(s, o))
        /\ \E x \in EdgeValues(s) : \E y \in EdgeValues(o) :
              \E r \in iu_div(s, o, x, y) :
                 Call("div", s, o, iu_Div_Output(s, o), x, y, r)

\* x / y, x unsigned and y signed
DivUnsignedSigned ==
    /\ pc = "idle"
    /\ \E s \in Types(i8_BITS) : \E o \in Types(i8_BITS) :
        /\ ~s.signed /\ o.signed
        /\ ValidBITS(ui_Div_Output(s, o))
        /\ \E x \in EdgeValues(s) : \E y \in EdgeValues(o) :
              \E r \in ui_div(s, o, x, y) :
                 Call("div", s, o, ui_Div_Output(s, o), x, y, r)

NextDiv == Div \/ DivSignedUnsigned \/ DivUnsignedSigned \/ Return
SpecDiv == Init /\ [][NextDiv]_vars

\* Operands of a conversion: every value of an 8-bit type, the values near
\* MIN, MAX and zero of a 16-bit type
Operands(t) == IF t.w = i8_BITS THEN Values(t) ELSE EdgeValues(t)

AllTypes == UNION { Types(w) : w \in Widths }

\* Self::from_fp(x) for x of type f
FromFp ==
    /\ pc = "idle"
    /\ \E f \in AllTypes : \E self \in AllTypes :
        /\ from_fp_accepts(f, self)
        /\ \E x \in Operands(f) : \E r \in from_fp(f, self, x) :
              Call("from_fp", f, NoType, self, x, 0, r)

\* x.into_fp::<F>() for x of type self
IntoFp ==
    /\ pc = "idle"
    /\ \E self \in AllTypes : \E f \in AllTypes :
        /\ from_fp_accepts(self, f)
        /\ \E x \in Operands(self) : \E r \in into_fp(self, f, x) :
              Call("into_fp", self, NoType, f, x, 0, r)

NextConv == FromFp \/ IntoFp \/ Return
SpecConv == Init /\ [][NextConv]_vars

\* The SHIFT parameters of the float conversions: those around zero and
\* around the bounds at which a format stops representing the values (its
\* largest exponent, its smallest normal, its smallest subnormal)
ShiftWindow(c) == (c - i8_BITS - MaxShift) .. (c + MaxShift)
FloatShifts(f) ==
    ShiftWindow(i8_BITS - f.max_exp) \cup ShiftWindow(0)
    \cup ShiftWindow(1 - f.min_exp) \cup ShiftWindow(f.mant - f.min_exp)
FloatTypes(f) ==
    { Type(i8_BITS, s, n, sh) :
        s \in BOOLEAN, n \in 0 .. i8_BITS, sh \in FloatShifts(f) }

\* x.into_f32() / x.into_f64()
IntoFloat ==
    /\ pc = "idle"
    /\ \E f \in {F32, F64} : \E t \in FloatTypes(f) : \E x \in Values(t) :
       \E r \in into_float(f, t, x) :
        /\ pc' = IF r.kind = "Ok" THEN "floated" ELSE "done"
        /\ op' = "into_float"
        /\ A' = t /\ a' = x /\ fmt' = f /\ fl' = r.f
        /\ out' = IF r.kind = "Ok" THEN NoOut ELSE Panic(r.msg)
        /\ UNCHANGED <<B, C, b>>

\* x.into_f32() / x.into_f64() for a plain integer x (BITS = width, SHIFT = 0)
IntIntoFloat ==
    /\ pc = "idle"
    /\ \E f \in {F32, F64} : \E w \in Widths : \E s \in BOOLEAN :
       \E x \in Operands(Type(w, s, w, 0)) :
       \E r \in int_into_float(f, Type(w, s, w, 0), x) :
        /\ pc' = "floated" /\ op' = "int_into_float"
        /\ A' = Type(w, s, w, 0) /\ a' = x /\ fmt' = f /\ fl' = r.f
        /\ out' = NoOut
        /\ UNCHANGED <<B, C, b>>

\* T::from_f32(f) / T::from_f64(f) on the float that into_f32 / into_f64 of
\* a value of T returned
FromFloatBack ==
    /\ pc = "floated"
    /\ \E r \in (IF op = "int_into_float" THEN int_from_float(fmt, A, fl)
                 ELSE from_float(fmt, A, fl)) :
        /\ pc' = "done" /\ op' = "round_trip" /\ out' = r
        /\ UNCHANGED <<A, B, C, a, b, fmt, fl>>

NextFloat == IntoFloat \/ IntIntoFloat \/ FromFloatBack \/ Return
SpecFloat == Init /\ [][NextFloat]_vars

\* The finite floats of a format
Representable(f, x) ==
    /\ x.cls = "fin"
    /\ \/ x.m = 0
       \/ /\ BitLen(x.m) <= f.mant
          /\ x.e >= EMin(f)
          /\ x.e + BitLen(x.m) <= f.max_exp

\* The non-finite floats
NonFinite == {NaN, Inf(FALSE), Inf(TRUE)}

\* Float arguments of from_f32 / from_f64 into a type of range lo .. hi and
\* the given SHIFT: the multiples of a quarter of the type's least
\* significant bit next to lo, to hi and to zero, and the non-finite floats
QuarterSteps(lo, hi) ==
    { k \in (4 * lo - 4 * (Near + 1)) .. (4 * hi + 4 * (Near + 1)) :
        \/ k <= 4 * lo + 4 * Near
        \/ k >= 4 * hi - 4 * Near
        \/ (-4 * Near <= k /\ k <= 4 * Near) }
FloatArgs(f, lo, hi, shift) ==
    { x \in { Canon(k < 0, Abs(k), -shift - 2) : k \in QuarterSteps(lo, hi) }
             \cup { Zero(TRUE) } :
        Representable(f, x) }
    \cup NonFinite

\* fp::I32::<21, 20>::from_f32(0.497): the type, and 0.497 as an f32
Example_I32_21_20 == Type(i32_BITS, TRUE, 21, 20)
Example_0_497 == Fin(FALSE, 16676553, -25)

\* T::from_f32(x) / T::from_f64(x) for a struct type T
FromFloat ==
    /\ pc = "idle"
    /\ \E f \in {F32, F64} :
       \E t \in FloatTypes(f) \cup {Example_I32_21_20} :
        /\ ValidBITS(t)
        /\ \E x \in (IF t = Example_I32_21_20 THEN {Example_0_497}
                     ELSE FloatArgs(f, MIN(t), MAX(t), t.shift)) :
           \E r \in from_float(f, t, x) :
            /\ pc' = "done" /\ op' = "from_float"
            /\ A' = t /\ fmt' = f /\ fl' = x /\ out' = r
            /\ UNCHANGED <<B, C, a, b>>

\* The plain integer types of the float bridge: i8, u8, i16, u16, i32
PlainInts ==
    { Type(w, s, w, 0) : w \in Widths, s \in BOOLEAN }
    \cup { Type(i32_BITS, TRUE, i32_BITS, 0) }

\* Float arguments of from_f32 / from_f64 into a plain integer: quarter
\* steps next to MIN, MAX and zero, or (for i32) the floats that the
\* integers next to MIN, MAX and zero convert to
IntFloatArgs(f, t) ==
    IF t.w = i32_BITS
    THEN { int_to_float(f, v) : v \in EdgeValues(t) } \cup NonFinite
    ELSE FloatArgs(f, MIN(t), MAX(t), 0)

\* T::from_f32(x) / T::from_f64(x) for a plain integer type T
IntFromFloat ==
    /\ pc = "idle"
    /\ \E f \in {F32, F64} : \E t \in PlainInts :
       \E x \in IntFloatArgs(f, t) : \E r \in int_from_float(f, t, x) :
        /\ pc' = "done" /\ op' = "int_from_float"
        /\ A' = t /\ fmt' = f /\ fl' = x /\ out' = r
        /\ UNCHANGED <<B, C, a, b>>

NextFromFloat == FromFloat \/ IntFromFloat \/ Return
SpecFromFloat == Init /\ [][NextFromFloat]_vars

\* The SHIFT parameters of the float conversions of types over a storage
\* of width w, as FloatShifts
WideShiftWindow(w, c) == (c - w - MaxShift) .. (c + MaxShift)
WideShifts(f, w) ==
    WideShiftWindow(w, w - f.max_exp) \cup WideShiftWindow(w, 0)
    \cup WideShiftWindow(w, 1 - f.min_exp)
    \cup WideShiftWindow(w, f.mant - f.min_exp)

\* Struct types wider than either mantissa: I32 and I64 of every BITS
WideTypes(f) ==
    { Type(w, TRUE, n, sh) :
        w \in {i32_BITS}, n \in 0 .. i32_BITS, sh \in WideShifts(f, i32_BITS) }
    \cup { Type(w, TRUE, n, sh) :
        w \in {i64_BITS}, n \in 0 .. i64_BITS, sh \in WideShifts(f, i64_BITS) }

\* Operands of the wide conversions: the values near MIN, MAX and zero; of
\* a type over i64, zero
WideOperands(t) == IF t.w = i64_BITS THEN {ZERO(t)} ELSE EdgeValues(t)

\* x.into_f32() / x.into_f64() for x of a struct type of any width
IntoFloatWide ==
    /\ pc = "idle"
    /\ \E f \in {F32, F64} : \E t \in FloatTypes(f) \cup WideTypes(f) :
       \E x \in WideOperands(t) : \E r \in into_float(f, t, x) :
        /\ pc' = "done" /\ op' = "into_float"
        /\ A' = t /\ a' = x /\ fmt' = f /\ fl' = r.f
        /\ out' = [kind |-> r.kind, raw |-> 0, msg |-> r.msg]
        /\ UNCHANGED <<B, C, b>>

NextIntoFloat == IntoFloatWide \/ Return
SpecIntoFloat == Init /\ [][NextIntoFloat]_vars

\* The plain integers of the into-float conversions, i64 included, and
\* their values: all of an 8-bit type, those near MIN, MAX and zero of a
\* wider one, those near zero of i64
PlainIntsWide == PlainInts \cup { Type(i64_BITS, TRUE, i64_BITS, 0) }
PlainOperands(t) ==
    IF t.w = i8_BITS THEN Values(t)
    ELSE IF t.w = i64_BITS THEN (-Near) .. Near
    ELSE EdgeValues(t)

\* x.into_f32() / x.into_f64() for a plain integer x, by impl<T: Int> Num
\* for T
IntIntoFloatWide ==
    /\ pc = "idle"
    /\ \E f \in {F32, F64} : \E t \in PlainIntsWide :
       \E x \in PlainOperands(t) : \E r \in int_into_float(f, t, x) :
        /\ pc' = "done" /\ op' = "int_into_float"
        /\ A' = t /\ a' = x /\ fmt' = f /\ fl' = r.f
        /\ out' = [kind |-> r.kind, raw |-> 0, msg |-> r.msg]
        /\ UNCHANGED <<B, C, b>>

\* x.into_f32() / x.into_f64() for a plain integer x, by impl Num for $T
PrimIntoFloat ==
    /\ pc = "idle"
    /\ \E f \in {F32, F64} : \E t \in PlainIntsWide :
       \E x \in PlainOperands(t) : \E r \in prim_into_float(f, t, x) :
        /\ pc' = "done" /\ op' = "prim_into_float"
        /\ A' = t /\ a' = x /\ fmt' = f /\ fl' = r.f
        /\ out' = [kind |-> r.kind, raw |-> 0, msg |-> r.msg]
        /\ UNCHANGED <<B, C, b>>

NextIntFloat == IntIntoFloatWide \/ PrimIntoFloat \/ Return
SpecIntFloat == Init /\ [][NextIntFloat]_vars

\* x.add_bits::<T>()
AddBits ==
    /\ pc = "idle"
    /\ \E s \in Types(i8_BITS) : \E t \in Types(i8_BITS) :
        /\ add_bits_accepts(s, t)
        /\ \E x \in Values(s) :
              Call("add_bits", s, NoType, t, x, 0, add_bits(t, x))

NextBits == AddBits \/ Return
SpecBits == Init /\ [][NextBits]_vars

\* The const parameter N of the logical shifts: negative, zero, positive
LogicalCounts == (-2 * MaxShift) .. (2 * MaxShift)

\* x.logical_shl::<N, T>()
LogicalShl ==
    /\ pc = "idle"
    /\ \E s \in Types(i8_BITS) : \E t \in Types(i8_BITS) : \E n \in LogicalCounts :
        /\ logical_shl_accepts(s, t, n)
        /\ \E x \in Values(s) :
              Call("logical_shl", s, NoType, t, x, n, logical_shl(t, x))

\* x.logical_shr::<N, T>()
LogicalShr ==
    /\ pc = "idle"
    /\ \E s \in Types(i8_BITS) : \E t \in Types(i8_BITS) : \E n \in LogicalCounts :
        /\ logical_shr_accepts(s, t, n)
        /\ \E x \in Values(s) :
              Call("logical_shr", s, NoType, t, x, n, logical_shr(t, x))

\* y.logical_shr::<N, T>() on the result y of x.logical_shl::<N, _>()
LogicalShrBack ==
    /\ pc = "done" /\ op = "logical_shl"
    /\ \E t \in Types(i8_BITS) :
        /\ logical_shr_accepts(C, t, b)
        /\ Call("shl_shr", A, t, C, a, b, logical_shr(t, out.raw))

NextLogical == LogicalShl \/ LogicalShr \/ LogicalShrBack \/ Return
SpecLogical == Init /\ [][NextLogical]_vars

\* The const parameter N of the raw shifts: from zero to beyond the
\* storage width
RawCounts == 0 .. (i8_BITS + MaxShift)

\* x.raw_shl::<N, T>()
RawShl ==
    /\ pc = "idle"
    /\ \E s \in Types(i8_BITS) : \E n \in RawCounts : \E tb \in 0 .. i8_BITS :
       LET t == Type(s.w, s.signed, tb, s.shift + n)
       IN  /\ raw_shl_accepts(s, t, n)
           /\ \E x \in Values(s) : \E r \in raw_shl(t, x, n) :
                 Call("raw_shl", s, NoType, t, x, n, r)

\* x.raw_shr::<N, T>()
RawShr ==
    /\ pc = "idle"
    /\ \E s \in Types(i8_BITS) : \E n \in RawCounts : \E tb \in 0 .. i8_BITS :
       LET t == Type(s.w, s.signed, tb, s.shift - n)
       IN  /\ raw_shr_accepts(s, t, n)
           /\ \E x \in Values(s) : \E r \in raw_shr(t, x, n) :
                 Call("raw_shr", s, NoType, t, x, n, r)

NextRaw == RawShl \/ RawShr \/ Return
SpecRaw == Init /\ [][NextRaw]_vars

\* The const parameter SHIFT of f32_lsb / f64_lsb: every SHIFT for which the
\* format has the power of two, and those next to them
LsbShifts(f) == (-f.max_exp - MaxShift) .. (f.mant - f.min_exp + MaxShift)

\* f32_lsb::<SHIFT>() / f64_lsb::<SHIFT>()
Lsb ==
    /\ pc = "idle"
    /\ \E f \in {F32, F64} : \E shift \in LsbShifts(f) : \E r \in f_lsb(f, shift) :
        /\ pc' = "done" /\ op' = "f_lsb"
        /\ b' = shift /\ fmt' = f /\ fl' = r.f
        /\ out' = [kind |-> r.kind, raw |-> 0, msg |-> ""]
        /\ UNCHANGED <<A, B, C, a>>

NextLsb == Lsb \/ Return
SpecLsb == Init /\ [][NextLsb]_vars

\* x.into_signed()
IntoSigned ==
    /\ pc = "idle"
    /\ \E s \in AllTypes :
        /\ into_signed_accepts(s)
        /\ \E x \in Operands(s) :
              Call("into_signed", s, NoType, into_signed_Output(s), x, 0,
                   into_signed(s, x))

\* x.into_unsigned()
IntoUnsigned ==
    /\ pc = "idle"
    /\ \E s \in AllTypes :
        /\ into_unsigned_accepts(s)
        /\ \E x \in Operands(s) :
              Call("into_unsigned", s, NoType, into_unsigned_Output(s), x, 0,
                   into_unsigned(s, x))

\* y.into_unsigned() on the result y of x.into_signed()
IntoUnsignedBack ==
    /\ pc = "done" /\ op = "into_signed"
    /\ into_unsigned_accepts(C)
    /\ Call("signed_unsigned", A, into_unsigned_Output(C), C, a, 0,
            into_unsigned(C, out.raw))

NextSign == IntoSigned \/ IntoUnsigned \/ IntoUnsignedBack \/ Return
SpecSign == Init /\ [][NextSign]_vars

----------------------------------------------------------------------------
(* Claims *)

\* The range of a type in closed form: BITS bits, two's complement if signed
Lo(t) == IF t.signed /\ t.bits > 0 THEN -(2^(t.bits - 1)) ELSE 0
Hi(t) == IF t.bits = 0 THEN 0
         ELSE IF t.signed THEN 2^(t.bits - 1) - 1 ELSE 2^(t.bits) - 1

\* C1: checked validation never clamps.  T::new(v) is TooSmall iff
\* v < MIN, TooLarge iff v > MAX, and otherwise Ok with raw v; set_bits::<T>
\* on a value of raw v gives the outcome of T::new(v).
C1_NewNeverClamps ==
    /\ (pc = "done" /\ op = "new") =>
          /\ (out.kind = "TooSmall") <=> (a < MIN(A))
          /\ (out.kind = "TooLarge") <=> (a > MAX(A))
          /\ (out.kind = "Ok") <=> (MIN(A) <= a /\ a <= MAX(A))
          /\ out.kind = "Ok" => out.raw = a
          /\ out.kind \in {"Ok", "TooSmall", "TooLarge"}
          /\ (~A.signed /\ A.bits = 4 /\ a = 16) => out.kind = "TooLarge"
    /\ (pc = "done" /\ op = "set_bits") =>
          /\ (out.kind = "TooSmall") <=> (a < MIN(C))
          /\ (out.kind = "TooLarge") <=> (a > MAX(C))
          /\ out.kind = "Ok" => out.raw = a
          /\ out.kind \in {"Ok", "TooSmall", "TooLarge"}

C1_Witness ==
    /\ pc = "done" /\ op = "new"
    /\ ~A.signed /\ A.bits = 4 /\ a = 16 /\ out.kind = "TooLarge"

\* C2: for every storage width, signedness and BITS in 0..W the constants
\* satisfy MIN <= ZERO <= MAX with ZERO = 0; signed MIN = -2^(BITS-1) and
\* MAX = 2^(BITS-1)-1, unsigned MIN = 0 and MAX = 2^BITS-1, and all three are
\* 0 when BITS = 0.
C2_ConstantsOrdered ==
    (pc = "done" /\ op = "consts") =>
        /\ a <= out.raw /\ out.raw <= b
        /\ out.raw = 0
        /\ a = Lo(A) /\ b = Hi(A)
        /\ A.bits = 0 => (a = 0 /\ b = 0)

C2_Witness ==
    /\ pc = "done" /\ op = "consts"
    /\ A.w = 16 /\ A.signed /\ A.bits = 0 /\ a = 0 /\ b = 0

\* C8: saturate::<T>() never fails and always returns a value within
\* [T.MIN, T.MAX]: the source raw if that is in range, T.MIN if it is below,
\* T.MAX if it is above.
C8_SaturateClamps ==
    (pc = "done" /\ op = "saturate") =>
        /\ out.kind = "Ok"
        /\ Lo(C) <= out.raw /\ out.raw <= Hi(C)
        /\ (Lo(C) <= a /\ a <= Hi(C)) => out.raw = a
        /\ a < Lo(C) => out.raw = Lo(C)
        /\ a > Hi(C) => out.raw = Hi(C)

C8_Witness ==
    /\ pc = "done" /\ op = "saturate"
    /\ A.signed /\ A.bits = 8 /\ C.bits = 3 /\ a = -128 /\ out = Ok(-4)

\* C3: add is overflow-free by headroom alone.  For every accepted
\* instantiation (same storage, equal SHIFT, Output BITS greater than both
\* operands' BITS) and in-range operands the result raw is the mathematical
\* sum, with no wrap of the storage type, and lies within [C.MIN, C.MAX].
C3_AddExact ==
    (pc = "done" /\ op = "add") =>
        /\ C.shift = A.shift /\ C.shift = B.shift
        /\ C.bits > A.bits /\ C.bits > B.bits
        /\ out.kind = "Ok"
        /\ out.raw = a + b
        /\ Lo(C) <= out.raw /\ out.raw <= Hi(C)

C3_Witness ==
    /\ pc = "done" /\ op = "add"
    /\ A.signed /\ A.bits = 7 /\ B.bits = 7 /\ C.bits = 8
    /\ a = -64 /\ b = -64 /\ out = Ok(-128)

\* C4: sub forces a signed result type with at least one more bit than each
\* operand, so that for every accepted instantiation and in-range operands
\* the promotion to the signed companion preserves the operands' values and
\* the result raw is the mathematical difference, within [C.MIN, C.MAX].
C4_SubExact ==
    (pc = "done" /\ op = "sub") =>
        /\ C.shift = A.shift /\ C.shift = B.shift
        /\ C.signed
        /\ as_signed(A.w, a) = a /\ as_signed(B.w, b) = b
        /\ out.kind = "Ok"
        /\ out.raw = a - b
        /\ Lo(C) <= out.raw /\ out.raw <= Hi(C)

\* C5: multiply is exact.  In all four sign combinations the result type is
\* C(BITS0+BITS1, SHIFT0+SHIFT1), signed unless both operands are unsigned,
\* and for in-range operands the result raw is the mathematical product and
\* lies within [C.MIN, C.MAX].
C5_MulExact ==
    (pc = "done" /\ op = "mul") =>
        /\ C.bits = A.bits + B.bits /\ C.shift = A.shift + B.shift
        /\ C.bits <= C.w
        /\ C.signed = (A.signed \/ B.signed)
        /\ out.kind = "Ok"
        /\ out.raw = a * b
        /\ Lo(C) <= out.raw /\ out.raw <= Hi(C)

C5_Witness ==
    /\ pc = "done" /\ op = "mul"
    /\ A.signed /\ ~B.signed /\ A.bits = 4 /\ B.bits = 4
    /\ a = -8 /\ b = 15 /\ out = Ok(-120) /\ C.bits = 8

\* q is x / y truncated toward zero: the remainder is smaller than the
\* divisor and has the sign of the dividend
IsTruncQuotient(q, x, y) ==
    LET r == x - q * y
    IN  /\ Abs(r) < Abs(y)
        /\ (r = 0 \/ (r < 0) = (x < 0))

SameSign == A.signed = B.signed

\* C6: same-signedness divide.  The result type has BITS0 + 1 bits if signed
\* and BITS0 if unsigned, and SHIFT0 - SHIFT1; for in-range operands with a
\* nonzero divisor the result raw is the quotient truncated toward zero and
\* lies within the result type's range (MIN / -1 included); a zero divisor
\* fails fatally and produces no value.
C6_DivSameSign ==
    (pc = "done" /\ op = "div" /\ SameSign) =>
        /\ C.signed = A.signed
        /\ C.bits = A.bits + (IF A.signed THEN 1 ELSE 0)
        /\ C.shift = A.shift - B.shift
        /\ b = 0 => out.kind = "panic"
        /\ b # 0 =>
              /\ out.kind = "Ok"
              /\ IsTruncQuotient(out.raw, a, b)
              /\ Lo(C) <= out.raw /\ out.raw <= Hi(C)

C6_Witness ==
    /\ pc = "done" /\ op = "div" /\ SameSign
    /\ A.signed /\ A.bits = 7 /\ a = -64 /\ b = -1 /\ out = Ok(64)

\* C7: mixed signed/unsigned divide.  Promoting the unsigned operand to the
\* signed storage type preserves its value, so for signed / unsigned (result
\* signed, BITS0 bits) and unsigned / signed (result signed, BITS0 + 1 bits),
\* in-range operands and a nonzero divisor, the result raw is the quotient
\* truncated toward zero and lies within the result type's range.
C7_DivMixed ==
    (pc = "done" /\ op = "div" /\ ~SameSign) =>
        /\ C.signed
        /\ C.bits = A.bits + (IF A.signed THEN 0 ELSE 1)
        /\ b # 0 =>
              /\ out.kind = "Ok"
              /\ IsTruncQuotient(out.raw, a, b)
              /\ Lo(C) <= out.raw /\ out.raw <= Hi(C)

IntoFloatPre(f, t) ==
    /\ t.bits <= f.mant
    /\ t.shift <= f.mant - f.min_exp
    /\ t.bits - t.shift <= f.max_exp

\* C10: float round-trip law.  For every fixed-point type that satisfies
\* the into_f64 preconditions (BITS <= 53, SHIFT <= 1074, BITS - SHIFT <=
\* 1024) and every in-range v, into_f64 returns a float and from_f64 of that
\* float returns Ok(v), at MIN and MAX and for subnormal results too; the
\* same holds for f32 (24, 149, 128), where raw -1 of a signed 1-bit type
\* with SHIFT = 149 maps to the smallest-magnitude negative subnormal.
C10_FloatRoundTrip ==
    /\ (pc = "done" /\ op = "into_float") => ~IntoFloatPre(fmt, A)
    /\ (pc = "floated") => (IntoFloatPre(fmt, A) /\ fl.cls = "fin")
    /\ (pc = "done" /\ op = "round_trip") => out = Ok(a)
    /\ (pc = "floated" /\ fmt = F32 /\ A.signed /\ A.bits = 1
            /\ A.shift = 149 /\ a = -1) => fl = Fin(TRUE, 1, -149)

C10_Witness ==
    /\ pc = "done" /\ op = "round_trip" /\ fmt = F32
    /\ A.signed /\ A.bits = 1 /\ A.shift = 149 /\ a = -1
    /\ fl = Fin(TRUE, 1, -149) /\ out = Ok(-1)

\* An integer n, and val * 2^shift, as exact binary fractions
Exact(n) ==
    IF n % 2 = 0 THEN Canon(n < 0, Abs(n \div 2), 1)
    ELSE Fin(n < 0, Abs(n), 0)
Scale(x, shift) == IF x.m = 0 THEN x ELSE [x EXCEPT !.e = x.e + shift]
TruncTowardZero(x) ==
    IF x.e >= 1
    THEN 2 * (IF x.neg THEN -(x.m * 2^(x.e - 1)) ELSE x.m * 2^(x.e - 1))
    ELSE IF x.neg THEN -Trunc(x) ELSE Trunc(x)

\* C11: checked from-float.  For every fixed-point type and every finite
\* val, from_f32 / from_f64 returns TooSmall iff val < MIN / 2^SHIFT,
\* TooLarge iff val > MAX / 2^SHIFT, and otherwise Ok(x) with x.raw() equal
\* to val * 2^SHIFT rounded toward zero and within [MIN, MAX] (0.497 into
\* the signed type with BITS = 21, SHIFT = 20 gives raw 521142); the call
\* fails fatally only when val is non-finite.
C11_FromFloatChecked ==
    (pc = "done" /\ op \in {"from_float", "int_from_float"}) =>
        /\ out.kind \in {"Ok", "TooSmall", "TooLarge", "panic"}
        /\ out.kind = "panic" <=> fl.cls # "fin"
        /\ fl.cls = "fin" =>
              LET v == Scale(fl, A.shift)
              IN  /\ out.kind = "TooSmall" <=> flt(v, Exact(MIN(A)))
                  /\ out.kind = "TooLarge" <=> fgt(v, Exact(MAX(A)))
                  /\ out.kind = "Ok" =>
                        /\ out.raw = TruncTowardZero(v)
                        /\ MIN(A) <= out.raw /\ out.raw <= MAX(A)
        /\ (A = Example_I32_21_20 /\ fmt = F32 /\ fl = Example_0_497) =>
              out = Ok(521142)

\* C12: into-float preconditions.  into_f32 on a struct type fails fatally,
\* whatever the value, iff BITS > 24 ("number could be truncated in f32"),
\* else SHIFT > 149 ("number could underflow f32"), else BITS - SHIFT > 128
\* ("number could overflow f32"), checked in that order; into_f64 likewise
\* with 53, 1074 and 1024.  When none holds and BITS = 0 the result is
\* exactly 0.0, even where 2^(-SHIFT) is not representable.
C12_IntoFloatPreconditions ==
    (pc = "done" /\ op = "into_float") =>
        LET f32 == fmt.name = "f32"
            truncated == A.bits > (IF f32 THEN 24 ELSE 53)
            underflow == A.shift > (IF f32 THEN 149 ELSE 1074)
            overflow == A.bits - A.shift > (IF f32 THEN 128 ELSE 1024)
        IN  /\ fmt.name \in {"f32", "f64"}
            /\ out.kind \in {"Ok", "panic"}
            /\ out.kind = "panic" <=> (truncated \/ underflow \/ overflow)
            /\ truncated =>
                  out.msg = (IF f32 THEN "number could be truncated in f32"
                             ELSE "number could be truncated in f64")
            /\ (~truncated /\ underflow) =>
                  out.msg = (IF f32 THEN "number could underflow f32"
                             ELSE "number could underflow f64")
            /\ (~truncated /\ ~underflow /\ overflow) =>
                  out.msg = (IF f32 THEN "number could overflow f32"
                             ELSE "number could overflow f64")
            /\ (out.kind = "Ok" /\ A.bits = 0) => fl = Zero(FALSE)

C12_Witness ==
    /\ pc = "done" /\ op = "into_float" /\ fmt = F32
    /\ A.w = 32 /\ A.bits = 32 /\ A.shift = -129 /\ a = -1
    /\ out = Panic("number could be truncated in f32")

\* C13: into-float is lossless.  For every struct type that passes the
\* preconditions of into_f32 (BITS <= 24, SHIFT <= 149, BITS - SHIFT <= 128)
\* or of into_f64 (53, 1074, 1024) and every raw value in [MIN, MAX], the
\* logical value raw / 2^SHIFT is a finite value of the float format and
\* into_f32 / into_f64 returns exactly it.
C13_IntoFloatLossless ==
    (pc = "done" /\ op = "into_float"
        /\ A.bits <= (IF fmt.name = "f32" THEN 24 ELSE 53)
        /\ A.shift <= (IF fmt.name = "f32" THEN 149 ELSE 1074)
        /\ A.bits - A.shift <= (IF fmt.name = "f32" THEN 128 ELSE 1024)) =>
        /\ out.kind = "Ok"
        /\ Representable(fmt, fl)
        /\ fl = Scale(Exact(a), -A.shift)

C13_Witness ==
    /\ pc = "done" /\ op = "into_float" /\ fmt = F32
    /\ A.w = 32 /\ A.bits = 24 /\ A.shift = 149 /\ a = 8388607
    /\ out.kind = "Ok" /\ fl = Fin(FALSE, 8388607, -149)

\* C14: float bridge of plain integers.  For a native integer used as a
\* fixed-point number (BITS = width, SHIFT = 0), into_f32 returns the exact
\* value for every integer type no more than 24 bits wide and into_f64 for
\* every integer type no more than 53 bits wide; each fails fatally for, and
\* only for, wider integer types, and never returns a rounded value.
C14_IntFloatBridge ==
    (pc = "done" /\ op \in {"int_into_float", "prim_into_float"}) =>
        LET digits == IF fmt.name = "f32" THEN 24 ELSE 53
        IN  /\ A.bits = A.w /\ A.shift = 0
            /\ out.kind \in {"Ok", "panic"}
            /\ out.kind = "panic" <=> A.bits > digits
            /\ out.kind = "Ok" => fl = Exact(a)

\* C15: add_bits is pure type-level widening.  x.add_bits::<T>() is accepted
\* only when T has the same storage and the same SHIFT as the source type,
\* T.BITS >= the source BITS and T.BITS fits the storage width; the result
\* then has the same raw value, hence the same logical value, and that raw
\* value lies within [T.MIN, T.MAX] for every in-range source value.
C15_AddBitsWidens ==
    (pc = "done" /\ op = "add_bits") =>
        /\ C.w = A.w /\ C.signed = A.signed
        /\ C.shift = A.shift
        /\ C.bits >= A.bits
        /\ C.bits <= C.w
        /\ out = Ok(a)
        /\ Lo(C) <= out.raw /\ out.raw <= Hi(C)

\* C16: logical shifts leave the raw value unchanged.  logical_shl::<N, T>()
\* is accepted only when T.BITS >= the source BITS and T.SHIFT = SHIFT - N,
\* logical_shr::<N, T>() only when T.BITS >= the source BITS and T.SHIFT =
\* SHIFT + N, N possibly negative; the result's raw value equals the source
\* raw value and lies within [T.MIN, T.MAX], and its logical value is the
\* source's multiplied (shl) or divided (shr) by 2^N; logical_shr::<N> after
\* logical_shl::<N> restores the logical value.
C16_LogicalShifts ==
    /\ (pc = "done" /\ op \in {"logical_shl", "logical_shr"}) =>
        LET n == IF op = "logical_shl" THEN b ELSE -b
        IN  /\ C.w = A.w /\ C.signed = A.signed
            /\ C.bits >= A.bits
            /\ C.shift = A.shift - n
            /\ out = Ok(a)
            /\ Lo(C) <= out.raw /\ out.raw <= Hi(C)
            /\ Scale(Exact(out.raw), -C.shift) = Scale(Exact(a), n - A.shift)
    /\ (pc = "done" /\ op = "shl_shr") =>
        /\ out.kind = "Ok"
        /\ Lo(B) <= out.raw /\ out.raw <= Hi(B)
        /\ Scale(Exact(out.raw), -B.shift) = Scale(Exact(a), -A.shift)

C16_Witness ==
    /\ pc = "done" /\ op = "shl_shr" /\ b = -1
    /\ A.signed /\ A.bits = 7 /\ A.shift = 0 /\ a = -64
    /\ C.bits = 8 /\ C.shift = 1
    /\ B.bits = 8 /\ B.shift = 0 /\ out = Ok(-64)

\* C17: raw shifts stay in range.  For every instantiation the static
\* requirements accept and every in-range source value, raw_shl::<N, T>()
\* yields raw * 2^N with no bits lost, an unchanged logical value and a raw
\* value within [T.MIN, T.MAX]; raw_shr::<N, T>() yields floor(raw / 2^N),
\* within [T.MIN, T.MAX], for signed and unsigned storage, including
\* destinations with T.BITS = 0 and N >= the source BITS.
C17_RawShiftsInRange ==
    /\ (pc = "done" /\ op = "raw_shl") =>
        /\ out = Ok(a * 2^b)
        /\ Lo(C) <= out.raw /\ out.raw <= Hi(C)
        /\ Scale(Exact(out.raw), -C.shift) = Scale(Exact(a), -A.shift)
    /\ (pc = "done" /\ op = "raw_shr") =>
        /\ out = Ok(a \div 2^b)
        /\ Lo(C) <= out.raw /\ out.raw <= Hi(C)

\* C18: exact scale factor.  For every SHIFT with -127 <= SHIFT <= 149,
\* f32_lsb::<SHIFT>() is exactly 2^(-SHIFT): a normal number (biased
\* exponent 127 - SHIFT, zero mantissa) for SHIFT <= 126 and a subnormal
\* (the single mantissa bit 149 - SHIFT) for 127 <= SHIFT <= 149, never zero
\* or infinity; likewise f64_lsb::<SHIFT>() for -1023 <= SHIFT <= 1074,
\* subnormal for SHIFT >= 1023.
C18_ExactScaleFactor ==
    (pc = "done" /\ op = "f_lsb"
        /\ \/ fmt.name = "f32" /\ -127 <= b /\ b <= 149
           \/ fmt.name = "f64" /\ -1023 <= b /\ b <= 1074) =>
        /\ out.kind = "Ok"
        /\ fl = Fin(FALSE, 1, -b)
        /\ Representable(fmt, fl)
        /\ LET subnormal == fl.e + BitLen(fl.m) < fmt.min_exp
           IN  subnormal <=> b >= (IF fmt.name = "f32" THEN 127 ELSE 1023)

C18_Witness ==
    /\ pc = "done" /\ op = "f_lsb" /\ fmt = F64 /\ b = 1074
    /\ out.kind = "Ok" /\ fl = Fin(FALSE, 1, -1074)

\* C19: signedness conversions preserve the value.  into_signed on U(B, S)
\* with B + 1 <= the storage width returns I(B + 1, S) with the same raw
\* value, within its range; into_unsigned on I(B, S), B >= 1, returns None
\* iff raw < 0 and otherwise Some of U(B - 1, S) with the same raw value,
\* within its range; into_unsigned(into_signed(u)) = Some(u).
C19_SignConversions ==
    /\ (pc = "done" /\ op = "into_signed") =>
        /\ ~A.signed /\ A.bits + 1 <= A.w
        /\ C = Type(A.w, TRUE, A.bits + 1, A.shift)
        /\ out = Ok(a)
        /\ Lo(C) <= out.raw /\ out.raw <= Hi(C)
    /\ (pc = "done" /\ op = "into_unsigned") =>
        /\ A.signed /\ A.bits >= 1
        /\ C = Type(A.w, FALSE, A.bits - 1, A.shift)
        /\ out.kind = "None" <=> a < 0
        /\ a >= 0 =>
              /\ out = Ok(a)
              /\ Lo(C) <= out.raw /\ out.raw <= Hi(C)
    /\ (pc = "done" /\ op = "signed_unsigned") =>
        /\ B = A
        /\ out = Ok(a)

C19_Witness ==
    /\ pc = "done" /\ op = "signed_unsigned"
    /\ A.w = 8 /\ ~A.signed /\ A.bits = 7 /\ a = 127
    /\ C.signed /\ C.bits = 8 /\ B = A /\ out = Ok(127)

====
